---- MODULE Spec2Model ----
(***************************************************************************)
(* A model of gnip_analysis_tools/measurements/measurement_base.py: the    *)
(* measurement classes (filters, counters, token sources, get views and    *)
(* combine), as a state machine over a few measurement instances.          *)
(***************************************************************************)
EXTENDS Integers, Sequences, FiniteSets, TLC

\* ------------------------------------------------------------------ bounds
\* Number of add_tweet / get / combine calls in one run.
MaxSteps == 3
\* Largest configured top_k and min_n.
MaxTopK == 2
MaxMinN == 2

\* The instances of the lifecycle runs: a measurement and one peer to combine with.
Inst == {1, 2}

\* ------------------------------------------------------- JSON-like values
\* A Tweet payload is a tree of dicts, lists and strings; every node carries
\* its Python type so that isinstance(obj, list) and data[key] can be modelled.
Str(s) == [t |-> "str", v |-> s]
List(s) == [t |-> "list", v |-> s]
Map(f) == [t |-> "dict", v |-> f]
\* A raised exception, propagating as a value: its class and its args.
Raise(e) == [t |-> "raise", v |-> e, args |-> <<>>]
\* The KeyError of data[key] for an absent key: its only argument is the key.
KeyError(key) == [t |-> "raise", v |-> "KeyError", args |-> <<key>>]
IsRaise(x) == x.t = "raise"
\* A normally returned Python value that is a plain sequence of strings.
Ok(s) == [t |-> "ok", v |-> s]

\* data[key] for a string key
Subscript(data, key) ==
    IF data.t = "dict"
    THEN IF key \in DOMAIN data.v THEN data.v[key] ELSE KeyError(key)
    ELSE Raise("TypeError")

\* The index of the first element of a sequence of values that is a raise (0: none)
FirstRaise(rs) ==
    IF \E i \in 1..Len(rs) : IsRaise(rs[i])
    THEN CHOOSE i \in 1..Len(rs) : IsRaise(rs[i]) /\ \A j \in 1..(i-1) : ~IsRaise(rs[j])
    ELSE 0

RECURSIVE get_element(_, _)
get_element(data, key_path) ==
    LET key == Head(key_path)
        obj == Subscript(data, key)
    IN  IF Len(key_path) = 1 \/ IsRaise(obj) THEN obj
        ELSE LET new_key_path == Tail(key_path)
             IN  IF obj.t = "list"
                 THEN LET results == [k \in 1..Len(obj.v) |-> get_element(obj.v[k], new_key_path)]
                      IN  IF FirstRaise(results) # 0 THEN results[FirstRaise(results)]
                          ELSE List(results)
                 ELSE get_element(obj, new_key_path)

\* ----------------------------------------------- helpers from nlp.utils
\* token_ok rejects degenerate tokens (empty, punctuation-only).
token_ok(token) == token \notin {"", "!"}
\* sanitize_string makes a counter name safe for CSV output: the delimiter
\* is taken out of the name, every other name is left as it is.
sanitize_string(name) == IF name = "a," THEN "a" ELSE name
\* term_comparator matches a token with a term up to letter case.
lower(word) == CASE word = "Cat" -> "cat" [] word = "Dog" -> "dog" [] OTHER -> word
term_comparator(token, term) == lower(token) = lower(term)

\* ----------------------------------------------------------------- tweets
NLTKBody(tokens) == Map([NLTKSpaceTokenizeBody |-> List([k \in 1..Len(tokens) |-> Str(tokens[k])])])
Sentences(ss) ==
    Map([BodyNLPEnrichment |->
         Map([sentences |-> List([k \in 1..Len(ss) |->
                                  List([m \in 1..Len(ss[k]) |-> Str(ss[k][m])])])])])
Mentions(names) ==
    Map([user_mentions |-> List([k \in 1..Len(names) |-> Map([name |-> Str(names[k])])])])

Tweets == <<
    \* a post with whitespace-tokenized body: a tie between "a" and "b"
    Map([id |-> Str("1"), verb |-> Str("post"), enrichments |-> NLTKBody(<<"a", "b">>)]),
    \* the accumulator {"a":2,"b":5,"c":1}, from one post
    Map([id |-> Str("2"), verb |-> Str("post"),
         enrichments |-> NLTKBody(<<"a", "a", "b", "b", "b", "b", "b", "c">>)]),
    \* a retweet with sentence tokens (one degenerate) and two mentions
    Map([id |-> Str("3"), verb |-> Str("share"),
         enrichments |-> Sentences(<< <<"b", "!">>, <<"c", "a,">> >>),
         twitter_entities |-> Mentions(<<"c", "b">>)]),
    \* a retweet whose body tokens repeat one term three times
    Map([id |-> Str("4"), verb |-> Str("share"),
         enrichments |-> NLTKBody(<<"c", "c", "c", "a,">>),
         twitter_entities |-> Mentions(<<"a">>)]),
    \* a payload with neither a verb nor any enrichment, and one mention
    Map([id |-> Str("5"), enrichments |-> Map(<<>>), twitter_entities |-> Mentions(<<"a">>)]),
    \* a retweet without twitter_entities
    Map([id |-> Str("6"), verb |-> Str("share"), enrichments |-> NLTKBody(<<"a">>)])
>>
TweetIds == 1..Len(Tweets)

\* ------------------------------------------------ insertion-ordered dicts
\* A Python dict is a sequence of <<name, count>> pairs with distinct names, in
\* insertion order.
Keys(d) == {d[k][1] : k \in 1..Len(d)}
HasKey(d, name) == \E k \in 1..Len(d) : d[k][1] = name
IndexOf(d, name) == CHOOSE k \in 1..Len(d) : d[k][1] = name
Lookup(d, name) == d[IndexOf(d, name)][2]
\* d[name] = count: in place when the key exists, appended when it is new
SetItem(d, name, count) ==
    IF HasKey(d, name) THEN [d EXCEPT ![IndexOf(d, name)] = <<name, count>>]
    ELSE Append(d, <<name, count>>)
\* The name -> count mapping of a dict, its order forgotten (dict equality)
AsMap(d) == [name \in Keys(d) |-> Lookup(d, name)]

\* ---------------------------------------------------------------- classes
\* What each class resolves to along its MRO: the accumulator its __init__
\* creates, and the classes whose update, get_tokens, get and combine it inherits.
ClassTable == [
    MeasurementBase    |-> [init |-> "MeasurementBase", update |-> "none", get_tokens |-> "none",
                            get |-> "none", combine |-> "MeasurementBase"],
    Counter            |-> [init |-> "Counter", update |-> "none", get_tokens |-> "none",
                            get |-> "Counter", combine |-> "Counter"],
    AllBodyTerms       |-> [init |-> "Counters", update |-> "CountersOfTokens",
                            get_tokens |-> "TokenizedBody", get |-> "Counters",
                            combine |-> "Counters"],
    TopBodyTerms       |-> [init |-> "Counters", update |-> "CountersOfTokens",
                            get_tokens |-> "TokenizedBody", get |-> "GetTopCounts",
                            combine |-> "Counters"],
    CutoffBodyTerms    |-> [init |-> "Counters", update |-> "CountersOfTokens",
                            get_tokens |-> "TokenizedBody", get |-> "GetCutoffCounts",
                            combine |-> "Counters"],
    CutoffTopBodyTerms |-> [init |-> "Counters", update |-> "CountersOfTokens",
                            get_tokens |-> "TokenizedBody", get |-> "GetCutoffTopCounts",
                            combine |-> "Counters"],
    TopMentions        |-> [init |-> "Counters", update |-> "MentionCounters",
                            get_tokens |-> "none", get |-> "GetTopCounts",
                            combine |-> "Counters"],
    CutoffTopMentions  |-> [init |-> "Counters", update |-> "MentionCounters",
                            get_tokens |-> "none", get |-> "GetCutoffTopCounts",
                            combine |-> "Counters"],
    SpecifiedBodyTermCounters |->
                           [init |-> "Counters", update |-> "SpecifiedBodyTermCounters",
                            get_tokens |-> "TokenizedBody", get |-> "Counters",
                            combine |-> "Counters"]
]
\* The classes of the lifecycle runs: those that need no term_list
Classes == DOMAIN ClassTable \ {"SpecifiedBodyTermCounters"}

get_name(self) == self.cls

\* The result of a call: the object after it, how it ended ("ok", "return" for
\* the early return of add_tweet, or the exception raised), whether update was
\* invoked, the value returned and the words of the exception's message.
Result(self, outcome, updated, ret, message) ==
    [self |-> self, outcome |-> outcome, updated |-> updated, ret |-> ret, message |-> message]

\* MeasurementBase.__init__, Counter.__init__ and Counters.__init__: the keyword
\* arguments become attributes; counter = 0; counters = defaultdict(int).
New(cls, filters, attrs) ==
    [cls |-> cls, filters |-> filters, attrs |-> attrs,
     counter |-> 0, counters |-> <<>>, defaultdict |-> TRUE]

\* hasattr(self, a) and setattr(self, a, value) for the configuration attributes
HasAttr(self, a) == a \in DOMAIN self.attrs
SetAttr(self, a, value) == [self EXCEPT !.attrs = (a :> value) @@ @]

\* --------------------------------------------------------- token sources
Flatten(sentences) ==
    LET RECURSIVE flat(_)
        flat(k) == IF k > Len(sentences.v) THEN <<>>
                   ELSE [m \in 1..Len(sentences.v[k].v) |-> sentences.v[k].v[m].v] \o flat(k + 1)
    IN  flat(1)

NoEnrichmentMessage == <<"No", "NLP", "enrichment", "found!">>

\* TokenizedBody.get_tokens: Ok(good_tokens) or the exception raised
TokenizedBody_get_tokens(tweet) ==
    LET enrichments == Subscript(tweet, "enrichments")
    IN  IF IsRaise(enrichments) THEN enrichments
        ELSE LET tokens ==
                   IF "BodyNLPEnrichment" \in DOMAIN enrichments.v
                   THEN LET s == Subscript(enrichments.v["BodyNLPEnrichment"], "sentences")
                        IN  IF IsRaise(s) THEN s ELSE Ok(Flatten(s))
                   ELSE IF "NLTKSpaceTokenizeBody" \in DOMAIN enrichments.v
                   THEN LET l == enrichments.v["NLTKSpaceTokenizeBody"]
                        IN  Ok([k \in 1..Len(l.v) |-> l.v[k].v])
                   ELSE [t |-> "raise", v |-> "KeyError", args |-> NoEnrichmentMessage]
             IN  IF IsRaise(tokens) THEN tokens
                 ELSE Ok(SelectSeq(tokens.v, token_ok))

get_tokens(self, tweet) ==
    IF ClassTable[self.cls].get_tokens = "TokenizedBody" THEN TokenizedBody_get_tokens(tweet)
    ELSE Raise("AttributeError")

\* ------------------------------------------------------------------ update
\* self.counters[name] += 1 for each name in turn; a plain dict raises KeyError
\* at the first name it does not hold, keeping the increments made before it.
RECURSIVE IncrementEach(_, _)
IncrementEach(self, names) ==
    IF names = <<>> THEN Result(self, "ok", TRUE, <<>>, <<>>)
    ELSE LET name == Head(names)
         IN  IF HasKey(self.counters, name)
             THEN IncrementEach([self EXCEPT !.counters =
                                    SetItem(@, name, Lookup(@, name) + 1)], Tail(names))
             ELSE IF self.defaultdict
             THEN IncrementEach([self EXCEPT !.counters = SetItem(@, name, 1)], Tail(names))
             ELSE Result(self, "KeyError", TRUE, <<>>, <<name>>)

CountersOfTokens_update(self, tweet) ==
    LET tokens == get_tokens(self, tweet)
    IN  IF IsRaise(tokens) THEN Result(self, tokens.v, TRUE, <<>>, tokens.args)
        ELSE IncrementEach(self, tokens.v)

\* MentionCounters.update: the mentions' names are read one at a time, so a
\* mention without a name raises after the earlier ones were counted.
RECURSIVE CountMentions(_, _)
CountMentions(self, mentions) ==
    IF mentions = <<>> THEN Result(self, "ok", TRUE, <<>>, <<>>)
    ELSE LET name == Subscript(Head(mentions), "name")
         IN  IF IsRaise(name) THEN Result(self, name.v, TRUE, <<>>, name.args)
             ELSE LET r == IncrementEach(self, <<name.v>>)
                  IN  IF r.outcome # "ok" THEN r ELSE CountMentions(r.self, Tail(mentions))

MentionCounters_update(self, tweet) ==
    LET mentions == get_element(tweet, <<"twitter_entities", "user_mentions">>)
    IN  IF IsRaise(mentions) THEN Result(self, mentions.v, TRUE, <<>>, mentions.args)
        ELSE CountMentions(self, mentions.v)

\* (mutant) the matching token is counted instead of the term: counters[token] += 1
RECURSIVE MatchedTerms_tokens(_, _)
MatchedTerms_tokens(tokens, term_list) ==
    IF tokens = <<>> THEN <<>>
    ELSE LET matches(term) == term_comparator(Head(tokens), term)
         IN  [k \in 1..Len(SelectSeq(term_list, matches)) |-> Head(tokens)]
             \o MatchedTerms_tokens(Tail(tokens), term_list)

\* The terms the two loops of SpecifiedBodyTermCounters.update increment, in
\* the loops' order: for each token, each term of term_list it matches
RECURSIVE MatchedTerms(_, _)
MatchedTerms(tokens, term_list) ==
    IF tokens = <<>> THEN <<>>
    ELSE LET matches(term) == term_comparator(Head(tokens), term)
         IN  SelectSeq(term_list, matches) \o MatchedTerms(Tail(tokens), term_list)

\* SpecifiedBodyTermCounters.update; self.term_list is read once there is a
\* token, and is an AttributeError when nothing defined it
SpecifiedBodyTermCounters_update(self, tweet) ==
    LET tokens == get_tokens(self, tweet)
    IN  IF IsRaise(tokens) THEN Result(self, tokens.v, TRUE, <<>>, tokens.args)
        ELSE IF tokens.v = <<>> THEN Result(self, "ok", TRUE, <<>>, <<>>)
        ELSE IF ~HasAttr(self, "term_list") THEN Result(self, "AttributeError", TRUE, <<>>, <<>>)
        ELSE IncrementEach(self, MatchedTerms(tokens.v, self.attrs["term_list"]))

\* self.update(tweet), resolved along the MRO; a class that inherits no update
\* raises AttributeError at the call.
update(self, tweet) ==
    CASE ClassTable[self.cls].update = "CountersOfTokens" -> CountersOfTokens_update(self, tweet)
      [] ClassTable[self.cls].update = "MentionCounters" -> MentionCounters_update(self, tweet)
      [] ClassTable[self.cls].update = "SpecifiedBodyTermCounters" ->
            SpecifiedBodyTermCounters_update(self, tweet)
      [] OTHER -> Result(self, "AttributeError", FALSE, <<>>, <<>>)

\* --------------------------------------------------------------- add_tweet
\* operator.eq on two payload values
Compare(comparator, data, value) ==
    CASE comparator = "eq" -> data.t = value.t /\ data.v = value.v

retweet_filter == [key_path |-> <<"verb">>, comparator |-> "eq", value |-> Str("share")]

\* How the filter loop ends, the exception's args, and how many paths the loop
\* resolved and how many comparators it called on the way
LoopEnd(outcome, message, resolved, compared) ==
    [outcome |-> outcome, message |-> message, resolved |-> resolved, compared |-> compared]

\* (mutant) every filter's path is resolved before the first comparator is called
RECURSIVE FilterLoop_resolve_first(_, _)
FilterLoop_resolve_first(filters, tweet) ==
    LET data == [k \in 1..Len(filters) |-> get_element(tweet, filters[k].key_path)]
        RECURSIVE loop(_)
        loop(k) == IF k > Len(filters) THEN LoopEnd("pass", <<>>, Len(filters), k - 1)
                   ELSE IF ~Compare(filters[k].comparator, data[k], filters[k].value)
                   THEN LoopEnd("return", <<>>, Len(filters), k)
                   ELSE loop(k + 1)
    IN  IF FirstRaise(data) # 0
        THEN LoopEnd(data[FirstRaise(data)].v, data[FirstRaise(data)].args, FirstRaise(data), 0)
        ELSE loop(1)

\* The filter loop of add_tweet: "pass" when every comparator is true, "return"
\* at the first false one, the exception's name when get_element raises.
RECURSIVE FilterLoop(_, _)
FilterLoop(filters, tweet) ==
    IF filters = <<>> THEN LoopEnd("pass", <<>>, 0, 0)
    ELSE LET data == get_element(tweet, Head(filters).key_path)
         IN  IF IsRaise(data) THEN LoopEnd(data.v, data.args, 1, 0)
             ELSE IF ~Compare(Head(filters).comparator, data, Head(filters).value)
             THEN LoopEnd("return", <<>>, 1, 1)
             ELSE LET rest == FilterLoop(Tail(filters), tweet)
                  IN  [rest EXCEPT !.resolved = @ + 1, !.compared = @ + 1]

\* (mutant) the loop goes on to the next filter instead of returning
add_tweet_continue(self, tweet) ==
    LET f == FilterLoop(self.filters, tweet)
    IN  IF f.outcome \in {"pass", "return"} THEN update(self, tweet)
        ELSE Result(self, f.outcome, FALSE, <<>>, f.message)

\* (mutant) an exception of the filter loop is swallowed: the record is rejected
add_tweet_swallow(self, tweet) ==
    LET f == FilterLoop(self.filters, tweet)
    IN  IF f.outcome = "pass" THEN update(self, tweet)
        ELSE Result(self, "return", FALSE, <<>>, <<>>)

add_tweet(self, tweet) ==
    LET f == FilterLoop(self.filters, tweet)
    IN  IF f.outcome = "pass" THEN update(self, tweet)
        ELSE Result(self, f.outcome, FALSE, <<>>, f.message)

\* --------------------------------------------------------------------- get
\* Config defaults set by get when the attribute is missing
TopKDefault == 20
MinNDefault == 3

\* {sanitize_string(name): count for name, count in d.items()}: a key keeps the
\* place of its first insertion and the value of its last.
RECURSIVE SanitizedDict(_, _)
SanitizedDict(d, acc) ==
    IF d = <<>> THEN acc
    ELSE SanitizedDict(Tail(d), SetItem(acc, sanitize_string(Head(d)[1]), Head(d)[2]))

\* GetBase.get_init: self.counters is rebound to the sanitized plain dict
get_init(self) ==
    [self EXCEPT !.counters = SanitizedDict(@, <<>>), !.defaultdict = FALSE]

\* sorted(items, key=operator.itemgetter(1)): ascending by count, stable
RECURSIVE InsertSorted(_, _)
InsertSorted(sorted, item) ==
    IF sorted = <<>> THEN <<item>>
    ELSE IF Head(sorted)[2] <= item[2] THEN <<Head(sorted)>> \o InsertSorted(Tail(sorted), item)
    ELSE <<item>> \o sorted
RECURSIVE Sorted(_, _)
Sorted(items, acc) ==
    IF items = <<>> THEN acc ELSE Sorted(Tail(items), InsertSorted(acc, Head(items)))
Reversed(s) == [k \in 1..Len(s) |-> s[Len(s) + 1 - k]]
\* (mutant) the slice keeps one entry too many: s[:k+1]
SliceTo_one_more(s, k) ==
    SubSeq(s, 1, IF k + 1 < Len(s) THEN k + 1 ELSE Len(s))

\* s[:k], also for a negative k
SliceTo(s, k) ==
    LET n == IF k >= 0 THEN (IF k < Len(s) THEN k ELSE Len(s))
             ELSE (IF Len(s) + k > 0 THEN Len(s) + k ELSE 0)
    IN  SubSeq(s, 1, n)
\* [(count, name) for name, count in items]
CountNamePairs(items) == [k \in 1..Len(items) |-> <<items[k][2], items[k][1]>>]

\* (mutant) sorted(..., reverse=True): descending and stable
sorted_top_stable(counters) == Reversed(Sorted(Reversed(counters), <<>>))

sorted_top(counters) == Reversed(Sorted(counters, <<>>))

GetTopCounts_get(self) ==
    LET s1 == get_init(self)
        s2 == IF ~HasAttr(s1, "top_k") THEN SetAttr(s1, "top_k", TopKDefault) ELSE s1
    IN  Result(s2, "ok", FALSE,
               CountNamePairs(SliceTo(sorted_top(s2.counters), s2.attrs["top_k"])), <<>>)

\* { token:count for token,count in self.counters.items() if count >= self.min_n }
CutoffDict(counters, min_n) ==
    LET keep(item) == item[2] >= min_n IN SelectSeq(counters, keep)

GetCutoffCounts_get(self) ==
    LET s1 == get_init(self)
        s2 == IF ~HasAttr(s1, "min_n") THEN SetAttr(s1, "min_n", MinNDefault) ELSE s1
        s3 == [s2 EXCEPT !.counters = CutoffDict(@, s2.attrs["min_n"])]
    IN  Result(s3, "ok", FALSE, CountNamePairs(s3.counters), <<>>)

\* GetCutoffTopCounts.get: super(GetCutoffTopCounts) is an unbound super object,
\* which has no attribute 'get': the call raises AttributeError after get_init
\* and the top_k default have taken effect.
GetCutoffTopCounts_get(self) ==
    LET s1 == get_init(self)
        s2 == IF ~HasAttr(s1, "top_k") THEN SetAttr(s1, "top_k", TopKDefault) ELSE s1
    IN  Result(s2, "AttributeError", FALSE, <<>>, <<>>)

Counter_get(self) == Result(self, "ok", FALSE, << <<self.counter, get_name(self)>> >>, <<>>)

Counters_get(self) ==
    Result(self, "ok", FALSE,
           [k \in 1..Len(self.counters) |->
               <<self.counters[k][2], sanitize_string(self.counters[k][1])>>], <<>>)

get(self) ==
    CASE ClassTable[self.cls].get = "Counter" -> Counter_get(self)
      [] ClassTable[self.cls].get = "Counters" -> Counters_get(self)
      [] ClassTable[self.cls].get = "GetTopCounts" -> GetTopCounts_get(self)
      [] ClassTable[self.cls].get = "GetCutoffCounts" -> GetCutoffCounts_get(self)
      [] ClassTable[self.cls].get = "GetCutoffTopCounts" -> GetCutoffTopCounts_get(self)
      [] OTHER -> Result(self, "AttributeError", FALSE, <<>>, <<>>)

\* ----------------------------------------------------------------- combine
NotImplementedMessage ==
    <<"Please", "implement", "a", "'combine'", "method", "for", "your", "measurement", "class">>

\* (mutant) the default combine does nothing
MeasurementBase_combine_pass(self, other) == Result(self, "ok", FALSE, <<>>, <<>>)

MeasurementBase_combine(self, other) ==
    Result(self, "NotImplementedError", FALSE, <<>>, NotImplementedMessage)

Counter_combine(self, new_counter) ==
    Result([self EXCEPT !.counter = @ + new_counter.counter], "ok", FALSE, <<>>, <<>>)

\* (mutant) an existing name's count is overwritten instead of added to
RECURSIVE MergeItems_overwrite(_, _)
MergeItems_overwrite(counters, new_items) ==
    IF new_items = <<>> THEN counters
    ELSE MergeItems_overwrite(SetItem(counters, Head(new_items)[1], Head(new_items)[2]),
                              Tail(new_items))

\* (mutant) a name self does not hold yet is not created
RECURSIVE MergeItems_no_create(_, _)
MergeItems_no_create(counters, new_items) ==
    IF new_items = <<>> THEN counters
    ELSE LET new_name == Head(new_items)[1]
         IN  MergeItems_no_create(
                 IF HasKey(counters, new_name)
                 THEN SetItem(counters, new_name, Lookup(counters, new_name) + Head(new_items)[2])
                 ELSE counters,
                 Tail(new_items))

\* The loop of Counters.combine over new_counters.counters.items()
RECURSIVE MergeItems(_, _)
MergeItems(counters, new_items) ==
    IF new_items = <<>> THEN counters
    ELSE LET new_name == Head(new_items)[1]
             new_count == Head(new_items)[2]
         IN  MergeItems(IF HasKey(counters, new_name)
                        THEN SetItem(counters, new_name, Lookup(counters, new_name) + new_count)
                        ELSE SetItem(counters, new_name, new_count),
                        Tail(new_items))

\* (mutant) self takes over the other's counters
Counters_combine_replace(self, new_counters) ==
    Result([self EXCEPT !.counters = new_counters.counters], "ok", FALSE, <<>>, <<>>)

Counters_combine(self, new_counters) ==
    Result([self EXCEPT !.counters = MergeItems(@, new_counters.counters)], "ok", FALSE, <<>>, <<>>)

combine(self, other) ==
    CASE ClassTable[self.cls].combine = "Counter" -> Counter_combine(self, other)
      [] ClassTable[self.cls].combine = "Counters" -> Counters_combine(self, other)
      [] OTHER -> MeasurementBase_combine(self, other)

\* ------------------------------------------------------------ configuration
\* A second filter whose path fans out over the list of mentions
mentions_filter ==
    [key_path |-> <<"twitter_entities", "user_mentions", "name">>, comparator |-> "eq",
     value |-> List(<<Str("c"), Str("b")>>)]

FilterConfigs == {<<>>, <<retweet_filter>>, <<retweet_filter, mentions_filter>>}

NoAttrs == [a \in {} |-> 0]
TopKConfigs == {NoAttrs} \cup {("top_k" :> n) : n \in 0..MaxTopK}
MinNConfigs == {NoAttrs} \cup {("min_n" :> n) : n \in 1..MaxMinN}
\* The keyword arguments a class's get recognizes
AttrConfigs(cls) ==
    CASE ClassTable[cls].get = "GetTopCounts" -> TopKConfigs
      [] ClassTable[cls].get = "GetCutoffCounts" -> MinNConfigs
      [] ClassTable[cls].get = "GetCutoffTopCounts" ->
            {a @@ b : a \in TopKConfigs, b \in MinNConfigs}
      [] OTHER -> {NoAttrs}

\* ---------------------------------------------------------- the state machine
VARIABLES
    obj,    \* obj[i]: measurement instance i (its class, configuration and counters)
    last,   \* the last call: what was called on which instance, and how it ended
    steps   \* the number of calls made

vars == <<obj, last, steps>>

Call(op, inst, arg, r) ==
    [op |-> op, inst |-> inst, arg |-> arg, outcome |-> r.outcome, updated |-> r.updated,
     ret |-> r.ret, message |-> r.message]

\* Instances of one class with identical configuration, one per shard
Init ==
    /\ \E cls \in Classes : \E filters \in FilterConfigs : \E attrs \in AttrConfigs(cls) :
          obj = [i \in Inst |-> New(cls, filters, attrs)]
    /\ last = [op |-> "init", inst |-> 0, arg |-> 0, outcome |-> "ok", updated |-> FALSE,
               ret |-> <<>>, message |-> <<>>]
    /\ steps = 0

\* obj[i].add_tweet(Tweets[t])
AddTweet(i, t) ==
    /\ steps < MaxSteps
    /\ LET r == add_tweet(obj[i], Tweets[t])
       IN  /\ obj' = [obj EXCEPT ![i] = r.self]
           /\ last' = Call("add_tweet", i, t, r)
    /\ steps' = steps + 1

\* obj[i].get()
Get(i) ==
    /\ steps < MaxSteps
    /\ LET r == get(obj[i])
       IN  /\ obj' = [obj EXCEPT ![i] = r.self]
           /\ last' = Call("get", i, 0, r)
    /\ steps' = steps + 1

\* obj[i].combine(obj[j])
Combine(i, j) ==
    /\ steps < MaxSteps
    /\ i # j
    /\ LET r == combine(obj[i], obj[j])
       IN  /\ obj' = [obj EXCEPT ![i] = r.self]
           /\ last' = Call("combine", i, j, r)
    /\ steps' = steps + 1

Next ==
    \/ \E i \in Inst : \E t \in TweetIds : AddTweet(i, t)
    \/ \E i \in Inst : Get(i)
    \/ \E i \in Inst : \E j \in Inst : Combine(i, j)

Spec == Init /\ [][Next]_vars

\* ------------------------------------------------- combine in both orders
\* Number of records fed to the measurements before they are combined.
MaxFeed == 3

\* The classes with a NamedCounters accumulator whose instances are combined
CombineClasses == {"AllBodyTerms", "TopMentions"}
Inputs == {"A", "B", "C"}
\* A.combine(B), B.combine(A), B.combine(C), then (A+B).combine(C) and
\* A.combine(B+C): each applied to a copy of its left operand.
Operands == [AB |-> <<"A", "B">>, BA |-> <<"B", "A">>, BC |-> <<"B", "C">>,
             AB_C |-> <<"AB", "C">>, A_BC |-> <<"A", "BC">>]

InitCombine ==
    /\ \E cls \in CombineClasses : obj = [x \in Inputs |-> New(cls, <<>>, NoAttrs)]
    /\ last = [op |-> "init", inst |-> "", arg |-> 0, outcome |-> "ok", updated |-> FALSE,
               ret |-> <<>>, message |-> <<>>]
    /\ steps = 0

\* obj[x].add_tweet(Tweets[t]), before anything is combined
FeedInput(x, t) ==
    /\ steps < MaxFeed
    /\ DOMAIN obj = Inputs
    /\ LET r == add_tweet(obj[x], Tweets[t])
       IN  /\ obj' = [obj EXCEPT ![x] = r.self]
           /\ last' = Call("add_tweet", x, t, r)
    /\ steps' = steps + 1

\* obj[e] = a copy of the left operand after left.combine(right)
CombineOperands(e) ==
    /\ e \notin DOMAIN obj
    /\ Operands[e][1] \in DOMAIN obj /\ Operands[e][2] \in DOMAIN obj
    /\ LET r == combine(obj[Operands[e][1]], obj[Operands[e][2]])
       IN  /\ obj' = (e :> r.self) @@ obj
           /\ last' = Call("combine", e, 0, r)
    /\ UNCHANGED steps

NextCombine ==
    \/ \E x \in Inputs : \E t \in TweetIds : FeedInput(x, t)
    \/ \E e \in DOMAIN Operands : CombineOperands(e)

SpecCombine == InitCombine /\ [][NextCombine]_vars

\* ------------------------------------------------------- sharded aggregation
\* Shard instances 1..3, and instance 0 that ingests every record itself
Shards == {1, 2, 3}
ShardClasses == {"AllBodyTerms", "TopMentions", "Counter"}
ShardFilterConfigs == {<<>>, <<retweet_filter>>}

InitShards ==
    /\ \E cls \in ShardClasses : \E filters \in ShardFilterConfigs :
          obj = [i \in Shards \cup {0} |-> New(cls, filters, NoAttrs)]
    /\ last = [op |-> "init", inst |-> 0, arg |-> 0, outcome |-> "ok", updated |-> FALSE,
               ret |-> <<>>, message |-> <<>>]
    /\ steps = 0

\* The next record of the sequence goes to shard i (and to instance 0)
FeedShard(i, t) ==
    /\ steps < MaxFeed
    /\ i \in DOMAIN obj \ {0}
    /\ LET r == add_tweet(obj[i], Tweets[t])
       IN  /\ obj' = [obj EXCEPT ![i] = r.self, ![0] = add_tweet(obj[0], Tweets[t]).self]
           /\ last' = Call("add_tweet", i, t, r)
    /\ steps' = steps + 1

\* obj[i].combine(obj[j]) in the coordinator's fold; shard j is then discarded
FoldShards(i, j) ==
    /\ i \in DOMAIN obj \ {0} /\ j \in DOMAIN obj \ {0} /\ i # j
    /\ LET r == combine(obj[i], obj[j])
       IN  /\ obj' = [k \in DOMAIN obj \ {j} |-> IF k = i THEN r.self ELSE obj[k]]
           /\ last' = Call("combine", i, j, r)
    /\ UNCHANGED steps

NextShards ==
    \/ \E i \in Shards : \E t \in TweetIds : FeedShard(i, t)
    \/ \E i \in Shards : \E j \in Shards : FoldShards(i, j)

SpecShards == InitShards /\ [][NextShards]_vars

\* ------------------------------------------------ resolving a filter's path
\* Largest number of nodes (dicts, lists, strings) of a record.
MaxNodes == 6

PathKeys == {"k", "m"}
\* The key paths of a filter: one to three keys
KeyPaths == UNION {[1..n -> PathKeys] : n \in 1..3}

\* The payload values of exactly n nodes: a string, a dict of one key, or a list
RECURSIVE ValuesOfSize(_)
ValuesOfSize(n) ==
    LET RECURSIVE Elements(_)
        \* the sequences of values whose sizes add up to total
        Elements(total) ==
            IF total = 0 THEN {<<>>}
            ELSE UNION {{<<first>> \o rest : first \in ValuesOfSize(size),
                                            rest \in Elements(total - size)} : size \in 1..total}
    IN  IF n = 1 THEN {Str("x"), Str("y"), List(<<>>)}
        ELSE {Map(key :> value) : key \in PathKeys, value \in ValuesOfSize(n - 1)}
             \cup {List(elements) : elements \in Elements(n - 1)}

\* The records: dicts of up to MaxNodes nodes
Records ==
    UNION {{Map(key :> value) : key \in PathKeys, value \in ValuesOfSize(n - 1)} : n \in 2..MaxNodes}

InitResolve ==
    /\ \E data \in Records : \E key_path \in KeyPaths :
          obj = [data |-> data, key_path |-> key_path]
    /\ last = [op |-> "init", ret |-> Str("")]
    /\ steps = 0

\* get_element(tweet, key_path), as the filter loop calls it
Resolve ==
    /\ steps = 0
    /\ last' = [op |-> "get_element", ret |-> get_element(obj.data, obj.key_path)]
    /\ steps' = 1
    /\ UNCHANGED obj

NextResolve == Resolve

SpecResolve == InitResolve /\ [][NextResolve]_vars

\* --------------------------------------------------- counting specified terms
\* The records fed to a measurement of specified terms
TermTweets == <<
    Map([id |-> Str("1"), verb |-> Str("share"), enrichments |-> NLTKBody(<<"cat", "bird", "cat">>)]),
    Map([id |-> Str("2"), verb |-> Str("share"), enrichments |-> NLTKBody(<<"Cat", "dog", "!">>)]),
    Map([id |-> Str("3"), verb |-> Str("share"),
         enrichments |-> Sentences(<< <<"dog">>, <<"bird", "Dog">> >>)]),
    Map([id |-> Str("4"), verb |-> Str("post"), enrichments |-> NLTKBody(<<"cat">>)]),
    Map([id |-> Str("5"), verb |-> Str("share"), enrichments |-> Map(<<>>)])
>>
\* The term lists a derived class or the constructor's term_list argument defines
TermLists == {<<"cat", "dog">>, <<"dog">>, <<"cat", "Cat">>, <<>>}
TermListConfigs == {NoAttrs} \cup {("term_list" :> terms) : terms \in TermLists}

InitTerms ==
    /\ \E filters \in ShardFilterConfigs : \E attrs \in TermListConfigs :
          obj = [i \in {1} |-> New("SpecifiedBodyTermCounters", filters, attrs)]
    /\ last = [op |-> "init", inst |-> 0, arg |-> 0, outcome |-> "ok", updated |-> FALSE,
               ret |-> <<>>, message |-> <<>>]
    /\ steps = 0

\* obj[i].add_tweet(TermTweets[t])
AddTermTweet(i, t) ==
    /\ steps < MaxSteps
    /\ LET r == add_tweet(obj[i], TermTweets[t])
       IN  /\ obj' = [obj EXCEPT ![i] = r.self]
           /\ last' = Call("add_tweet", i, t, r)
    /\ steps' = steps + 1

\* obj[i].get()
GetTerms(i) ==
    /\ steps < MaxSteps
    /\ LET r == get(obj[i])
       IN  /\ obj' = [obj EXCEPT ![i] = r.self]
           /\ last' = Call("get", i, 0, r)
    /\ steps' = steps + 1

NextTerms ==
    \/ \E i \in DOMAIN obj : \E t \in 1..Len(TermTweets) : AddTermTweet(i, t)
    \/ \E i \in DOMAIN obj : GetTerms(i)

SpecTerms == InitTerms /\ [][NextTerms]_vars

\* ------------------------------------------------ the image label enrichment
\* (enrichments/image_enrichment.py)
\* Largest number of entries of a tweet's media list.
MaxMedia == 2

\* ImageLabel.__init__: the number of predictions to return
topk == 5

None == [t |-> "none", v |-> <<>>]
\* A PIL image
Image == [t |-> "image", v |-> <<>>]
\* str(x) of a string, and of a probability (a number of percent): its digits
str(x) == x
str_of_number(x) == ToString(x)

\* The entries of a media list: with a URL, with an empty URL, without one
MediaEntries ==
    {Map([media_url |-> Str("u1")]), Map([media_url |-> Str("u2")]), Map([media_url |-> Str("")]),
     Map([type |-> Str("photo")])}
MediaLists == UNION {[1..n -> MediaEntries] : n \in 0..MaxMedia}
\* The 'twitter_entities' of a tweet: without 'media', or with a media list
EntitiesConfigs ==
    {Map([hashtags |-> List(<<>>)])}
    \cup {Map([media |-> List(media)]) : media \in MediaLists}
ImageTweets ==
    {Map([id |-> Str("1")]), Map([body |-> Str("b")])}
    \cup {Map([id |-> Str("1"), twitter_entities |-> e]) : e \in EntitiesConfigs}
    \cup {Map([body |-> Str("b"), twitter_entities |-> e]) : e \in EntitiesConfigs}

\* What requests.get meets: a response that is ok or not, or a network error;
\* and whether the bytes of an ok response are an image PIL can open
Responses == {"ok", "not_ok", "network_error"}
Contents == {"image", "garbage"}

\* The model's decoded predictions, best first: (code, description, probability in percent)
DecodedPredictions ==
    << <<"n01", "tabby", 60>>, <<"n02", "tiger_cat", 20>>, <<"n03", "lynx", 9>>,
       <<"n04", "fox", 5>>, <<"n05", "dog", 3>>, <<"n06", "wolf", 2>> >>

\* logging.info('... tweet id={}'.format(tweet['id'])), then the value returned
LogTweetIdThen(tweet, value) ==
    IF IsRaise(Subscript(tweet, "id")) THEN Subscript(tweet, "id") ELSE value

_get_img_url(tweet) ==
    IF \/ "twitter_entities" \notin DOMAIN tweet.v
       \/ "media" \notin DOMAIN tweet.v["twitter_entities"].v
    THEN LogTweetIdThen(tweet, None)
    ELSE LET media == tweet.v["twitter_entities"].v["media"].v
         IN  IF media = <<>> THEN Raise("IndexError")
             ELSE LET media_url == Subscript(media[1], "media_url")
                  IN  IF IsRaise(media_url) THEN LogTweetIdThen(tweet, None) ELSE media_url

_download_image(img_url, response, content) ==
    IF response = "network_error" THEN Raise("ConnectionError")
    ELSE IF response = "ok"
    THEN (IF content = "image" THEN Image ELSE Raise("UnidentifiedImageError"))
    ELSE None

_get_image_from_tweet(tweet, response, content) ==
    LET img_url == _get_img_url(tweet)
    IN  IF IsRaise(img_url) THEN img_url
        ELSE IF img_url.t = "str" /\ img_url.v # "" THEN _download_image(img_url, response, content)
        ELSE LogTweetIdThen(tweet, None)

\* k_decode_predictions(preds, top=topk)[0]
_make_predictions(img, top) == SliceTo(DecodedPredictions, top)

_format_output(predictions) ==
    [k \in 1..Len(predictions) |->
        <<str(predictions[k][2]), str_of_number(predictions[k][3]), str(predictions[k][1])>>]

enrichment_value(tweet, response, content) ==
    LET img == _get_image_from_tweet(tweet, response, content)
    IN  IF IsRaise(img) THEN img
        ELSE IF img.t = "image" THEN Ok(_format_output(_make_predictions(img, topk)))
        ELSE None

InitImage ==
    /\ \E tweet \in ImageTweets : \E response \in Responses : \E content \in Contents :
          obj = [tweet |-> tweet, response |-> response, content |-> content]
    /\ last = [op |-> "init", ret |-> None]
    /\ steps = 0

\* ImageLabelVGG16().enrichment_value(tweet)
EnrichmentValue ==
    /\ steps = 0
    /\ last' = [op |-> "enrichment_value",
                ret |-> enrichment_value(obj.tweet, obj.response, obj.content)]
    /\ steps' = 1
    /\ UNCHANGED obj

NextImage == EnrichmentValue

SpecImage == InitImage /\ [][NextImage]_vars

\* ================================================================== claims
Range(s) == {s[k] : k \in 1..Len(s)}
UsesView(cls) == ClassTable[cls].get \in {"GetTopCounts", "GetCutoffCounts", "GetCutoffTopCounts"}
HasCounters(cls) == ClassTable[cls].init = "Counters"
CountOf(d, name) == IF HasKey(d, name) THEN Lookup(d, name) ELSE 0

\* C1: for NamedCounters measurements A, B, C of one class, A after
\* A.combine(B) holds the same name -> count mapping as B after B.combine(A), and
\* (A+B)+C the same mapping as A+(B+C).
C1_CombineCommutesAssociates ==
    /\ {"AB", "BA"} \subseteq DOMAIN obj
          => AsMap(obj["AB"].counters) = AsMap(obj["BA"].counters)
    /\ {"AB_C", "A_BC"} \subseteq DOMAIN obj
          => AsMap(obj["AB_C"].counters) = AsMap(obj["A_BC"].counters)

\* C1 witness: all four combinations were made of three non-empty accumulators,
\* A and B sharing a name, and A+B and B+A differ in insertion order
C1_Witness ==
    /\ {"AB", "BA", "AB_C", "A_BC"} \subseteq DOMAIN obj
    /\ \A x \in Inputs : obj[x].counters # <<>>
    /\ Keys(obj["A"].counters) \cap Keys(obj["B"].counters) # {}
    /\ Keys(obj["C"].counters) \ Keys(obj["AB"].counters) # {}
    /\ obj["AB"].counters # obj["BA"].counters

\* The accumulator of a measurement: its scalar and its name -> count mapping
Accumulator(self) == [counter |-> self.counter, counters |-> AsMap(self.counters)]

\* C2: once the shard instances are folded into one with combine, in whatever
\* order, its accumulator equals that of the one instance that ingested all the
\* records itself.
C2_FoldEqualsSingleInstance ==
    \A i \in DOMAIN obj :
        DOMAIN obj = {0, i} /\ i # 0 => Accumulator(obj[i]) = Accumulator(obj[0])

\* C2 witness: three records were spread over the shards and folded into one
\* instance, whose dict differs from the single instance's in insertion order only
C2_Witness ==
    /\ Cardinality(DOMAIN obj) = 2
    /\ last.op = "combine"
    /\ steps >= 3
    /\ Len(obj[0].counters) >= 3
    /\ \E i \in DOMAIN obj \ {0} : obj[i].counters # obj[0].counters

\* Some configured filter's comparator is false on the value its path resolves to
SomeFilterFalse(filters, tweet) ==
    \E k \in 1..Len(filters) :
        LET data == get_element(tweet, filters[k].key_path)
        IN  ~IsRaise(data) /\ ~Compare(filters[k].comparator, data, filters[k].value)
\* ... and the loop gets to evaluate it: every filter declared before it is true
EvaluatesFalse(filters, tweet) ==
    \E k \in 1..Len(filters) :
        /\ LET data == get_element(tweet, filters[k].key_path)
           IN  ~IsRaise(data) /\ ~Compare(filters[k].comparator, data, filters[k].value)
        /\ \A m \in 1..(k - 1) :
             LET data == get_element(tweet, filters[m].key_path)
             IN  ~IsRaise(data) /\ Compare(filters[m].comparator, data, filters[m].value)

\* C3: when a configured filter's comparator is false on the record, add_tweet
\* does not invoke update and leaves the accumulator as it was; when the loop
\* evaluates that comparator, the call ends by the early return.
C3_FilterFalseLeavesAccumulator ==
    [][\A i \in DOMAIN obj :
          (/\ last'.op = "add_tweet" /\ last'.inst = i
           /\ Len(obj[i].filters) >= 1
           /\ SomeFilterFalse(obj[i].filters, Tweets[last'.arg]))
          => /\ ~last'.updated
             /\ last'.outcome # "ok"
             /\ obj'[i] = obj[i]
             /\ (EvaluatesFalse(obj[i].filters, Tweets[last'.arg]) => last'.outcome = "return")]_vars

\* C3 witness: a record is rejected by a filter on a measurement that already counts something
C3_Witness ==
    /\ last.op = "add_tweet" /\ last.outcome = "return"
    /\ SomeFilterFalse(obj[last.inst].filters, Tweets[last.arg])
    /\ obj[last.inst].counters # <<>>

\* C4: get() of a measurement that uses a view leaves the accumulator as it was
\* (same names, same counts).
C4_GetLeavesAccumulator ==
    [][\A i \in DOMAIN obj :
          (last'.op = "get" /\ last'.inst = i /\ UsesView(obj[i].cls))
          => AsMap(obj'[i].counters) = AsMap(obj[i].counters)]_vars

Min(a, b) == IF a <= b THEN a ELSE b
IsTopK(cls) == ClassTable[cls].get = "GetTopCounts"
\* The (count, label) pairs are distinct entries of the dict d, counts non-increasing
SortedEntriesOf(ret, d) ==
    /\ \A p \in 1..Len(ret) : HasKey(d, ret[p][2]) /\ Lookup(d, ret[p][2]) = ret[p][1]
    /\ \A p, q \in 1..Len(ret) : p < q => ret[p][1] >= ret[q][1] /\ ret[p][2] # ret[q][2]
TheExample == << <<"a", 2>>, <<"b", 5>>, <<"c", 1>> >>

\* C5 as stated: TopK(n) returns the entries by count descending, entries with
\* equal counts in the accumulator's iteration order; {"a":2,"b":5,"c":1} under
\* TopK(2) gives [(5,"b"),(2,"a")].
C5_TopKStable ==
    (last.op = "get" /\ IsTopK(obj[last.inst].cls))
    => LET d == obj[last.inst].counters
           ret == last.ret
       IN  /\ SortedEntriesOf(ret, d)
           /\ \A p, q \in 1..Len(ret) :
                (p < q /\ ret[p][1] = ret[q][1]) => IndexOf(d, ret[p][2]) < IndexOf(d, ret[q][2])
           /\ (d = TheExample /\ obj[last.inst].attrs["top_k"] = 2)
                => ret = << <<5, "b">>, <<2, "a">> >>

\* C5 as amended: TopK(n) returns the min(n, size) entries with the largest
\* counts, by count descending, and entries with equal counts appear in the
\* reverse of their order in the dict get iterates (the accumulator with its
\* names sanitized); {"a":2,"b":5,"c":1} under TopK(2) gives [(5,"b"),(2,"a")].
C5_TopKReversedTies ==
    (last.op = "get" /\ IsTopK(obj[last.inst].cls))
    => LET d == obj[last.inst].counters
           ret == last.ret
       IN  /\ last.outcome = "ok"
           /\ Len(ret) = Min(obj[last.inst].attrs["top_k"], Len(d))
           /\ SortedEntriesOf(ret, d)
           /\ \A p, q \in 1..Len(ret) :
                (p < q /\ ret[p][1] = ret[q][1]) => IndexOf(d, ret[p][2]) > IndexOf(d, ret[q][2])
           /\ \A k \in 1..Len(d) : \A p \in 1..Len(ret) :
                (\A q \in 1..Len(ret) : ret[q][2] # d[k][1])
                => /\ d[k][2] <= ret[p][1]
                   /\ d[k][2] = ret[p][1] => k < IndexOf(d, ret[p][2])
           /\ (d = TheExample /\ obj[last.inst].attrs["top_k"] = 2)
                => ret = << <<5, "b">>, <<2, "a">> >>

\* C5 witness: a TopK get() that returned two entries with equal counts
C5_Witness ==
    /\ last.op = "get" /\ IsTopK(obj[last.inst].cls)
    /\ Len(last.ret) >= 2 /\ last.ret[1][1] = last.ret[2][1]

\* C6: get() of a CutoffThenTopK measurement returns normally at most n
\* (count, label) pairs, all with count >= minCount, in non-increasing count
\* order: TopK(n) of the entries that survive Cutoff(minCount).
C6_CutoffThenTopK ==
    [][\A i \in DOMAIN obj :
          (last'.op = "get" /\ last'.inst = i
           /\ ClassTable[obj[i].cls].get = "GetCutoffTopCounts")
          => LET cut == GetCutoffCounts_get(obj[i]).self
             IN  /\ last'.outcome = "ok"
                 /\ last'.ret = GetTopCounts_get([cut EXCEPT !.attrs = obj'[i].attrs]).ret
                 /\ Len(last'.ret) <= obj'[i].attrs["top_k"]
                 /\ \A p \in 1..Len(last'.ret) : last'.ret[p][1] >= cut.attrs["min_n"]]_vars

\* C7: on a Counter with no filters every add_tweet completes and raises the
\* scalar by exactly one, and get() returns [(scalar, "Counter")]: after k
\* records, [(k, "Counter")].
C7_CounterCountsRecords ==
    [][\A i \in DOMAIN obj :
          (obj[i].cls = "Counter" /\ obj[i].filters = <<>> /\ last'.inst = i)
          => /\ last'.op = "add_tweet"
                => last'.outcome = "ok" /\ obj'[i].counter = obj[i].counter + 1
             /\ last'.op = "get"
                => last'.ret = << <<obj[i].counter, "Counter">> >>]_vars

\* C8: every count of a NamedCounters measurement is a non-negative integer, and
\* no call removes a name or lowers its count.
C8_CountsNeverDecrease ==
    [][\A i \in DOMAIN obj : HasCounters(obj[i].cls) =>
          \A name \in Keys(obj[i].counters) :
              /\ Lookup(obj[i].counters, name) >= 0
              /\ HasKey(obj'[i].counters, name)
              /\ Lookup(obj'[i].counters, name) >= Lookup(obj[i].counters, name)]_vars

InheritsDefaultCombine(cls) == ClassTable[cls].combine = "MeasurementBase"

\* C9 as stated: combine on a class that does not override it fails with the
\* unsupported-operation error (NotImplementedError), its message names the
\* measurement's class, and the measurement is left as it was.
C9_DefaultCombineNamesClass ==
    [][\A i \in DOMAIN obj :
          (last'.op = "combine" /\ last'.inst = i /\ InheritsDefaultCombine(obj[i].cls))
          => /\ last'.outcome = "NotImplementedError"
             /\ get_name(obj[i]) \in Range(last'.message)
             /\ obj' = obj]_vars

\* C9 as amended: combine on a class that does not override it fails with
\* NotImplementedError, whose fixed message asks for a 'combine' method and does
\* not name the measurement's class, and the measurement is left as it was.
C9_DefaultCombineFails ==
    [][\A i \in DOMAIN obj :
          (last'.op = "combine" /\ last'.inst = i /\ InheritsDefaultCombine(obj[i].cls))
          => /\ last'.outcome = "NotImplementedError"
             /\ "'combine'" \in Range(last'.message)
             /\ get_name(obj[i]) \notin Range(last'.message)
             /\ obj' = obj]_vars

\* C9 witness: the default combine was called after an add_tweet on the measurement
C9_Witness ==
    /\ last.op = "combine" /\ InheritsDefaultCombine(obj[last.inst].cls)
    /\ last.outcome = "NotImplementedError"
    /\ steps >= 2

\* C10: TopK(n) get() returns at most n entries with non-increasing counts, and
\* when top_k is not configured n is 20.
C10_TopKAtMostN ==
    [][\A i \in DOMAIN obj :
          (last'.op = "get" /\ last'.inst = i /\ IsTopK(obj[i].cls))
          => LET n == IF HasAttr(obj[i], "top_k") THEN obj[i].attrs["top_k"] ELSE 20
                 ret == last'.ret
             IN  /\ last'.outcome = "ok"
                 /\ obj'[i].attrs["top_k"] = n
                 /\ Len(ret) <= n
                 /\ \A p \in 1..(Len(ret) - 1) : ret[p][1] >= ret[p + 1][1]]_vars

\* C10 witness: a TopK get() that cut the output down to a configured n >= 1
C10_Witness ==
    /\ last.op = "get" /\ IsTopK(obj[last.inst].cls)
    /\ obj[last.inst].attrs["top_k"] >= 1
    /\ Len(last.ret) = obj[last.inst].attrs["top_k"]
    /\ Len(obj[last.inst].counters) > Len(last.ret)

IsCutoff(cls) == ClassTable[cls].get = "GetCutoffCounts"

\* C11: Cutoff(minCount) get() returns no entry with count < minCount and, as a
\* set, every entry of the accumulator with count >= minCount (under its output
\* label), an entry with count exactly minCount included; when min_n is not
\* configured, minCount is 3.
C11_CutoffKeepsEntries ==
    [][\A i \in DOMAIN obj :
          (last'.op = "get" /\ last'.inst = i /\ IsCutoff(obj[i].cls))
          => LET min_n == IF HasAttr(obj[i], "min_n") THEN obj[i].attrs["min_n"] ELSE 3
                 d == obj[i].counters
                 ret == last'.ret
             IN  /\ last'.outcome = "ok"
                 /\ obj'[i].attrs["min_n"] = min_n
                 /\ \A p \in 1..Len(ret) : ret[p][1] >= min_n
                 /\ \A k \in 1..Len(d) :
                      d[k][2] >= min_n => <<d[k][2], sanitize_string(d[k][1])>> \in Range(ret)]_vars

\* Resolution as C12 describes it: at a sequence with path keys remaining, the
\* rest of the path is resolved against each element, one result per element in
\* order; at any other node the next key is looked up.
RECURSIVE resolve(_, _)
resolve(node, key_path) ==
    IF key_path = <<>> THEN node
    ELSE IF node.t = "list"
    THEN LET results == [k \in 1..Len(node.v) |-> resolve(node.v[k], key_path)]
         IN  IF FirstRaise(results) # 0 THEN results[FirstRaise(results)] ELSE List(results)
    ELSE LET child == Subscript(node, Head(key_path))
         IN  IF IsRaise(child) THEN child ELSE resolve(child, Tail(key_path))

\* The path gets to a sequence while keys remain, and every key it asks for exists
PassesThroughSequence(data, key_path) ==
    /\ ~IsRaise(resolve(data, key_path))
    /\ \E n \in 1..(Len(key_path) - 1) :
          LET node == resolve(data, SubSeq(key_path, 1, n))
          IN  ~IsRaise(node) /\ node.t = "list"

\* C12: when the resolution of a key path reaches a sequence while path keys
\* remain, the rest of the path is resolved against each element and the result
\* is the list of the elements' results in the elements' order, nested
\* sequences giving nested lists.
C12_SequenceFansOut ==
    (last.op = "get_element" /\ PassesThroughSequence(obj.data, obj.key_path))
    => last.ret = resolve(obj.data, obj.key_path)

\* The loop gets to a filter whose path asks for a key the record does not have:
\* every filter declared before it resolves and is true
ReachesMissingKey(filters, tweet) ==
    \E k \in 1..Len(filters) :
        /\ LET data == get_element(tweet, filters[k].key_path)
           IN  IsRaise(data) /\ data.v = "KeyError"
        /\ \A m \in 1..(k - 1) :
             LET data == get_element(tweet, filters[m].key_path)
             IN  ~IsRaise(data) /\ Compare(filters[m].comparator, data, filters[m].value)
\* Some filter's path asks for a key the record does not have
SomePathMissing(filters, tweet) ==
    \E k \in 1..Len(filters) :
        LET data == get_element(tweet, filters[k].key_path)
        IN  IsRaise(data) /\ data.v = "KeyError"
\* The paths with an absent key
MissingPaths(filters, tweet) ==
    {filters[k].key_path : k \in {m \in 1..Len(filters) :
                                     IsRaise(get_element(tweet, filters[m].key_path))}}

\* C13 as stated: when a filter's path names a key absent from the record,
\* add_tweet ends with the missing-field error (KeyError), which identifies the
\* path and the record's identifier; update is not invoked and the accumulator
\* is unchanged.
C13_MissingFieldNamesPathAndRecord ==
    [][\A i \in DOMAIN obj :
          (/\ last'.op = "add_tweet" /\ last'.inst = i
           /\ SomePathMissing(obj[i].filters, Tweets[last'.arg]))
          => /\ last'.outcome = "KeyError"
             /\ \E path \in MissingPaths(obj[i].filters, Tweets[last'.arg]) :
                   Range(path) \subseteq Range(last'.message)
             /\ Tweets[last'.arg].v["id"].v \in Range(last'.message)
             /\ ~last'.updated
             /\ obj'[i] = obj[i]]_vars

\* C13 as amended: when the filter loop gets to a filter whose path names a key
\* absent from the record, add_tweet ends with a KeyError whose only argument is
\* the absent key (one key of that path; not the record's identifier); update is
\* not invoked and the measurement is unchanged.
C13_MissingKeyPropagates ==
    [][\A i \in DOMAIN obj :
          (/\ last'.op = "add_tweet" /\ last'.inst = i
           /\ ReachesMissingKey(obj[i].filters, Tweets[last'.arg]))
          => /\ last'.outcome = "KeyError"
             /\ Len(last'.message) = 1
             /\ \E path \in MissingPaths(obj[i].filters, Tweets[last'.arg]) :
                   /\ last'.message[1] \in Range(path)
                   /\ ~IsRaise(resolve(Tweets[last'.arg],
                                       SubSeq(path, 1, (CHOOSE n \in 1..Len(path) :
                                                           path[n] = last'.message[1]) - 1)))
             /\ Tweets[last'.arg].v["id"].v \notin Range(last'.message)
             /\ ~last'.updated
             /\ obj'[i] = obj[i]]_vars

\* C13 witness: the second filter's path is missing from a record the first
\* filter accepts, on a measurement that already counts something
C13_Witness ==
    /\ last.op = "add_tweet" /\ last.outcome = "KeyError"
    /\ Len(obj[last.inst].filters) = 2
    /\ last.message = <<"twitter_entities">>
    /\ obj[last.inst].counters # <<>>

\* C14: on a measurement with no configured filters, every add_tweet invokes
\* update (once, with the record).
C14_NoFiltersInvokesUpdate ==
    [][\A i \in DOMAIN obj :
          (last'.op = "add_tweet" /\ last'.inst = i /\ obj[i].filters = <<>>)
          => last'.updated]_vars

IsString(x) == x \in STRING

\* C16: ImageLabel.enrichment_value returns None or a list of at most topk
\* (label, probability, code) triples of strings; no media entry, an empty
\* media list, a media entry without a URL, a network error or a response that
\* is not OK all give None, and no exception reaches the caller.
C16_ImageLabelNeverRaises ==
    last.op = "enrichment_value"
    => \/ last.ret = None
       \/ /\ last.ret.t = "ok"
          /\ Len(last.ret.v) <= topk
          /\ \A k \in 1..Len(last.ret.v) :
                Len(last.ret.v[k]) = 3 /\ \A p \in 1..3 : IsString(last.ret.v[k][p])

\* The place of the first filter whose comparator is false, every filter before
\* it being true (0: there is none)
FirstFalse(filters, tweet) ==
    LET IsFalse(k) == LET data == get_element(tweet, filters[k].key_path)
                      IN  ~IsRaise(data)
                          /\ ~Compare(filters[k].comparator, data, filters[k].value)
        IsTrue(k) == LET data == get_element(tweet, filters[k].key_path)
                     IN  ~IsRaise(data)
                         /\ Compare(filters[k].comparator, data, filters[k].value)
        firsts == {k \in 1..Len(filters) : IsFalse(k) /\ \A m \in 1..(k - 1) : IsTrue(m)}
    IN  IF firsts = {} THEN 0 ELSE CHOOSE k \in firsts : TRUE

\* C17: filters are evaluated in declaration order and the evaluation stops at
\* the first false comparator: the paths and comparators of the filters after
\* it are not evaluated, so the record is rejected without error even when a
\* later filter's path is missing from it.
C17_FiltersShortCircuit ==
    [][\A i \in DOMAIN obj :
          (/\ last'.op = "add_tweet" /\ last'.inst = i
           /\ FirstFalse(obj[i].filters, Tweets[last'.arg]) # 0)
          => LET k == FirstFalse(obj[i].filters, Tweets[last'.arg])
                 loop == FilterLoop(obj[i].filters, Tweets[last'.arg])
             IN  /\ last'.outcome = "return"
                 /\ ~last'.updated
                 /\ obj'[i] = obj[i]
                 /\ loop.resolved = k /\ loop.compared = k]_vars

\* C17 witness: a record was rejected by the first of two filters although the
\* second filter's path is missing from it, on a measurement that counts something
C17_Witness ==
    /\ last.op = "add_tweet" /\ last.outcome = "return"
    /\ Len(obj[last.inst].filters) = 2
    /\ FirstFalse(obj[last.inst].filters, Tweets[last.arg]) = 1
    /\ IsRaise(get_element(Tweets[last.arg], obj[last.inst].filters[2].key_path))
    /\ obj[last.inst].counters # <<>>

\* C18: after self.combine(other) on two NamedCounters measurements, self holds
\* exactly the names of the two key sets, each with self's previous count (0 if
\* absent) plus other's count (0 if absent); on two ScalarCounters self's
\* scalar is the sum of the two previous scalars.
C18_CombineIsUnionWithSum ==
    [][\A i \in DOMAIN obj :
          (last'.op = "combine" /\ last'.inst = i)
          => LET other == obj[last'.arg]
             IN  /\ HasCounters(obj[i].cls)
                    => /\ last'.outcome = "ok"
                       /\ Keys(obj'[i].counters) = Keys(obj[i].counters) \cup Keys(other.counters)
                       /\ \A name \in Keys(obj'[i].counters) :
                             Lookup(obj'[i].counters, name)
                                = CountOf(obj[i].counters, name) + CountOf(other.counters, name)
                 /\ obj[i].cls = "Counter"
                    => /\ last'.outcome = "ok"
                       /\ obj'[i].counter = obj[i].counter + other.counter]_vars

\* C18 witness: a combine of two non-empty accumulators that share a name and
\* each hold a name the other does not
C18_Witness ==
    /\ last.op = "combine" /\ last.outcome = "ok" /\ HasCounters(obj[last.inst].cls)
    /\ LET other == obj[last.arg].counters
           mine == obj[last.inst].counters
       IN  /\ other # <<>>
           /\ Keys(mine) \ Keys(other) # {}
           /\ \E name \in Keys(other) : Lookup(mine, name) > Lookup(other, name)
           /\ \E name \in Keys(other) : Lookup(mine, name) = Lookup(other, name)

\* The tokens update counts for a record: Ok(names) or the exception raised
YieldedTokens(self, tweet) ==
    CASE ClassTable[self.cls].update = "CountersOfTokens" -> get_tokens(self, tweet)
      [] ClassTable[self.cls].update = "MentionCounters" ->
            LET names == get_element(tweet, <<"twitter_entities", "user_mentions", "name">>)
            IN  IF IsRaise(names) THEN names
                ELSE Ok([k \in 1..Len(names.v) |-> names.v[k].v])
      [] OTHER -> Raise("AttributeError")
Occurrences(names, name) == Cardinality({k \in 1..Len(names) : names[k] = name})

\* C19: in every reachable state of a token-counting measurement with a view,
\* also after get() calls, add_tweet of an admitted record completes without
\* error and raises the count of each yielded token by one per yield, creating
\* the entry of a token that was not present.
C19_IngestAfterGetCounts ==
    [][\A i \in DOMAIN obj :
          (/\ last'.op = "add_tweet" /\ last'.inst = i
           /\ UsesView(obj[i].cls)
           /\ FilterLoop(obj[i].filters, Tweets[last'.arg]).outcome = "pass"
           /\ ~IsRaise(YieldedTokens(obj[i], Tweets[last'.arg])))
          => LET names == YieldedTokens(obj[i], Tweets[last'.arg]).v
             IN  /\ last'.outcome = "ok"
                 /\ \A name \in Range(names) :
                       /\ HasKey(obj'[i].counters, name)
                       /\ Lookup(obj'[i].counters, name)
                             = CountOf(obj[i].counters, name) + Occurrences(names, name)]_vars

RECURSIVE SumCounts(_, _)
\* The sum of the counts at place at of the pairs of a sequence
SumCounts(pairs, at) ==
    IF pairs = <<>> THEN 0 ELSE Head(pairs)[at] + SumCounts(Tail(pairs), at)

\* C20: label sanitization loses no counts: when n is at least the number of
\* names, the counts TopK(n) get() returns add up to the sum of all counts of
\* the accumulator, also when two names sanitize to the same label.
C20_SanitizationKeepsCounts ==
    [][\A i \in DOMAIN obj :
          (/\ last'.op = "get" /\ last'.inst = i /\ IsTopK(obj[i].cls)
           /\ obj'[i].attrs["top_k"] >= Len(obj[i].counters))
          => SumCounts(last'.ret, 1) = SumCounts(obj[i].counters, 2)]_vars

====
